---- MODULE Spec2Model ----
(***************************************************************************)
(* Model of src/cdk-lib/opensearch-vectorindex/vector-index.ts: the        *)
(* VectorIndex construct, the payload of its 'Custom::OpenSearchIndex'     *)
(* custom resource, its ManageIndexPolicy access policy, the shared        *)
(* OpenSearchIndexCRProvider and the dependency edges of the resource      *)
(* graph the construct emits.                                              *)
(***************************************************************************)
EXTENDS Integers, Sequences, FiniteSets, TLC

\* ------------------------------------------------------------------ bounds
MaxIndexes == 2
MaxMappings == 2
MaxFilters == 2

\* --------------------------------------------------- JavaScript value model
\* An optional property is a sequence of length at most one: None is the
\* property left out (undefined), Some(v) the property supplied with value v.
None == <<>>
Some(v) == <<v>>

\* `x || d` on a string-typed optional: undefined and '' are falsy.
OrString(x, d) == IF x = None \/ x[1] = "" THEN d ELSE x[1]

\* `x || d` on a number-typed optional: undefined and 0 are falsy.
\* (variant: the default is forgotten and undefined becomes 0)
OrNumberNoDefault(x, d) == IF x = None THEN 0 ELSE x[1]
OrNumber(x, d) == IF x = None \/ x[1] = 0 THEN d ELSE x[1]

\* `x || d` on an object-typed optional: every object is truthy.
OrObject(x, d) == IF x = None THEN d ELSE x[1]

\* JSON.stringify of a string and of an array of strings.
JSONString(s) == "\"" \o s \o "\""

RECURSIVE JSONJoin(_)
JSONJoin(parts) ==
  IF Len(parts) = 0 THEN ""
  ELSE IF Len(parts) = 1 THEN parts[1]
  ELSE parts[1] \o "," \o JSONJoin(Tail(parts))

JSONStringArray(strs) ==
  "[" \o JSONJoin([i \in 1..Len(strs) |-> JSONString(strs[i])]) \o "]"

\* JSON.stringify of a Record<string, any> whose values are numbers; the
\* object is the sequence of its <<key, value>> members in insertion order.
JSONStringify(obj) ==
  "{" \o JSONJoin([i \in 1..Len(obj) |->
                     JSONString(obj[i][1]) \o ":" \o ToString(obj[i][2])]) \o "}"

\* ------------------------------------------------------------- environment
Stacks == {"StackA", "StackB"}
Region(stack) == IF stack = "StackA" THEN "us-east-1" ELSE "eu-west-1"

\* A VectorCollection construct as the constructor reads it.
Collection(name) ==
  [ node              |-> "Collection-" \o name,
    collectionName    |-> name,
    collectionId      |-> "id-" \o name,
    aossPolicy        |-> "AOSSPolicy-" \o name,
    dataAccessPolicy  |-> "DataAccessPolicy-" \o name ]

\* ---------------------------------------------------------------- inputs
RECURSIVE SeqsUpTo(_, _)
SeqsUpTo(S, n) ==
  IF n = 0 THEN {<<>>}
  ELSE LET shorter == SeqsUpTo(S, n - 1)
       IN  shorter \cup {Append(q, x) : q \in {t \in shorter : Len(t) = n - 1}, x \in S}

\* MetadataManagementFieldProps values.
MappingFields ==
  [ mappingField : {"AMAZON_BEDROCK_TEXT_CHUNK", "AMAZON_BEDROCK_METADATA"},
    dataType     : {"text", "keyword"},
    filterable   : BOOLEAN ]

\* Analyzer values.
Analyzers ==
  [ characterFilters : SeqsUpTo({"icu_normalizer", "html_strip"}, MaxFilters),
    tokenizer        : {"kuromoji_tokenizer", "icu_tokenizer"},
    tokenFilters     : SeqsUpTo({"kuromoji_stemmer", "ja_stop"}, MaxFilters) ]

BaseProps ==
  [ collection       |-> Collection("c1"),
    indexName        |-> "idx",
    vectorField      |-> "vec",
    vectorDimensions |-> 1536,
    mappings         |-> << [mappingField |-> "AMAZON_BEDROCK_TEXT_CHUNK",
                             dataType |-> "text", filterable |-> TRUE] >>,
    analyzer         |-> None,
    engine           |-> None,
    spaceType        |-> None,
    methodName       |-> None,
    parameters       |-> None,
    numberOfShards   |-> None,
    efSearch         |-> None,
    customSettings   |-> None ]

\* Props that vary the optional scalar and object properties.
OptionalVariants ==
  { [BaseProps EXCEPT !.engine = e, !.spaceType = st, !.methodName = mn,
                      !.parameters = pa, !.numberOfShards = ns,
                      !.efSearch = ef, !.customSettings = cs] :
      e  \in {None, Some(""), Some("nmslib")},
      st \in {None, Some(""), Some("cosinesimil")},
      mn \in {None, Some(""), Some("ivf")},
      pa \in {None, Some(<<>>), Some(<< <<"m", 16>> >>)},
      ns \in {None, Some(0), Some(4)},
      ef \in {None, Some(0), Some(100)},
      cs \in {None, Some(<<>>), Some(<< <<"index.refresh_interval", 30>> >>)} }

\* Props that vary the required properties.
RequiredVariants ==
  { [BaseProps EXCEPT !.indexName = n, !.vectorField = vf,
                      !.vectorDimensions = d, !.mappings = ms] :
      n  \in {"idx", "other-idx"},
      vf \in {"vec", "embedding"},
      d  \in {-1, 0, 1536},
      ms \in SeqsUpTo(MappingFields, MaxMappings) }

\* Props that vary the analyzer.
AnalyzerVariants ==
  { [BaseProps EXCEPT !.analyzer = a] : a \in {None} \cup {Some(x) : x \in Analyzers} }

PropsSamples == OptionalVariants \cup RequiredVariants \cup AnalyzerVariants

\* One props object per collection, for stacks that index several collections.
CollectionProps ==
  << [BaseProps EXCEPT !.collection = Collection("c1")],
     [BaseProps EXCEPT !.collection = Collection("c2"), !.indexName = "other-idx"] >>

\* ------------------------------------------------------------------- state
VARIABLES
  heap,       \* the caller's VectorIndexProps objects, by reference
  providers,  \* the OpenSearchIndexCRProvider constructs created so far
  indexes,    \* the VectorIndex constructs created so far
  outcome,    \* how the last `new VectorIndex(...)` ended
  phase,      \* "synth", "deploy" or "destroy"
  status      \* deployment status of each resource of the synthesized graph

vars == <<heap, providers, indexes, outcome, phase, status>>


\* ------------------------------------------------ OpenSearchIndexCRProvider
ProviderName == "OpenSearchIndexCRProvider"

\* The provider constructs of `stack` (stack.node.tryFindChild(providerName)).
ProvidersOf(ps, stack) == {i \in DOMAIN ps : ps[i].stack = stack}

\* A new provider construct: one Lambda-backed provider and one role.
NewProvider(stack, n) ==
  [ stack        |-> stack,
    providerName |-> ProviderName,
    serviceToken |-> "ServiceToken-" \o ToString(n),
    role         |-> [ roleArn         |-> "RoleArn-" \o ToString(n),
                       managedPolicies |-> {} ] ]

\* getProvider(scope): the providers after the call; the stack's provider is
\* created on first use and found again afterwards.
GetProvider(ps, stack) ==
  IF ProvidersOf(ps, stack) # {} THEN ps
  ELSE Append(ps, NewProvider(stack, Len(ps) + 1))

\* The provider getProvider(scope) returns, as a position in the providers.
ProviderId(ps, stack) == CHOOSE i \in ProvidersOf(ps, stack) : TRUE

\* role.addManagedPolicy(policy)
\* (variant: the policy list is overwritten instead of extended)
AddManagedPolicyReplacing(role, policy) == [role EXCEPT !.managedPolicies = {policy}]
AddManagedPolicy(role, policy) ==
  [role EXCEPT !.managedPolicies = @ \cup {policy}]

\* ------------------------------------------------------- VectorIndex pieces
DefaultNumberOfShards == 2
DefaultEfSearch == 512

IndexPermissions ==
  <<"aoss:DescribeIndex", "aoss:CreateIndex", "aoss:DeleteIndex", "aoss:UpdateIndex">>

\* The object handed to JSON.stringify for the access policy.
\* (variant: the rules name every collection instead of props.collection)
PolicyDocumentAnyCollection(props, crProvider) ==
  << [ Rules |-> << [ Resource     |-> << "index/*/*" >>,
                      Permission   |-> IndexPermissions,
                      ResourceType |-> "index" ],
                    [ Resource     |-> << "collection/*" >>,
                      Permission   |-> << "aoss:DescribeCollectionItems" >>,
                      ResourceType |-> "collection" ] >>,
       Principal   |-> << crProvider.role.roleArn >>,
       Description |-> "" ] >>
PolicyDocument(props, crProvider) ==
  << [ Rules |-> << [ Resource     |-> << "index/" \o props.collection.collectionName \o "/*" >>,
                      Permission   |-> IndexPermissions,
                      ResourceType |-> "index" ],
                    [ Resource     |-> << "collection/" \o props.collection.collectionName >>,
                      Permission   |-> << "aoss:DescribeCollectionItems" >>,
                      ResourceType |-> "collection" ] >>,
       Principal   |-> << crProvider.role.roleArn >>,
       Description |-> "" ] >>

\* JSON.stringify of the policy document.
JSONRule(rule) ==
  "{" \o JSONString("Resource") \o ":" \o JSONStringArray(rule.Resource) \o ","
      \o JSONString("Permission") \o ":" \o JSONStringArray(rule.Permission) \o ","
      \o JSONString("ResourceType") \o ":" \o JSONString(rule.ResourceType) \o "}"

JSONStatement(st) ==
  "{" \o JSONString("Rules") \o ":["
      \o JSONJoin([i \in 1..Len(st.Rules) |-> JSONRule(st.Rules[i])]) \o "],"
      \o JSONString("Principal") \o ":" \o JSONStringArray(st.Principal) \o ","
      \o JSONString("Description") \o ":" \o JSONString(st.Description) \o "}"

JSONPolicy(doc) ==
  "[" \o JSONJoin([i \in 1..Len(doc) |-> JSONStatement(doc[i])]) \o "]"

\* new oss.CfnAccessPolicy(this, 'ManageIndexPolicy', ...)
ManageIndexPolicy(path, props, crProvider) ==
  [ path     |-> path \o "/ManageIndexPolicy",
    type     |-> "data",
    document |-> PolicyDocument(props, crProvider),
    policy   |-> JSONPolicy(PolicyDocument(props, crProvider)) ]

\* const analyzerProps = props.analyzer ? {...} : undefined
\* (variant: an analyzer without character filters is treated as absent)
AnalyzerPropsDroppingEmpty(props) ==
  IF props.analyzer # None /\ props.analyzer[1].characterFilters # <<>>
  THEN Some([ CharacterFilters |-> props.analyzer[1].characterFilters,
              Tokenizer        |-> props.analyzer[1].tokenizer,
              TokenFilters     |-> props.analyzer[1].tokenFilters ])
  ELSE None
AnalyzerProps(props) ==
  IF props.analyzer # None
  THEN Some([ CharacterFilters |-> props.analyzer[1].characterFilters,
              Tokenizer        |-> props.analyzer[1].tokenizer,
              TokenFilters     |-> props.analyzer[1].tokenFilters ])
  ELSE None

\* props.mappings.map((m) => ({MappingField, DataType, Filterable}))
\* (variant: only the filterable fields are emitted)
MetadataManagementFilterableOnly(mappings) ==
  LET kept == SelectSeq(mappings, LAMBDA m : m.filterable)
  IN  [i \in 1..Len(kept) |->
         [ MappingField |-> kept[i].mappingField,
           DataType     |-> kept[i].dataType,
           Filterable   |-> kept[i].filterable ]]
MetadataManagement(mappings) ==
  [i \in 1..Len(mappings) |->
     [ MappingField |-> mappings[i].mappingField,
       DataType     |-> mappings[i].dataType,
       Filterable   |-> mappings[i].filterable ]]

\* The `properties` of the custom resource.
Properties(stack, props) ==
  [ CollectionName     |-> props.collection.collectionName,
    Endpoint           |-> props.collection.collectionId \o "." \o Region(stack)
                             \o ".aoss.amazonaws.com",
    IndexName          |-> props.indexName,
    VectorField        |-> props.vectorField,
    VectorDimension    |-> props.vectorDimensions,
    Engine             |-> OrString(props.engine, "faiss"),
    SpaceType          |-> OrString(props.spaceType, "l2"),
    MethodName         |-> OrString(props.methodName, "hnsw"),
    Parameters         |-> JSONStringify(OrObject(props.parameters, <<>>)),
    NumberOfShards     |-> OrNumber(props.numberOfShards, DefaultNumberOfShards),
    EfSearch           |-> OrNumber(props.efSearch, DefaultEfSearch),
    CustomSettings     |-> JSONStringify(OrObject(props.customSettings, <<>>)),
    MetadataManagement |-> MetadataManagement(props.mappings),
    Analyzer           |-> AnalyzerProps(props) ]

\* The three vectorIndex.node.addDependency(...) calls.
\* (variant: the edge on the data access policy is missing)
DependenciesWithoutDataAccessPolicy(manageIndexPolicy, props) ==
  { manageIndexPolicy.path, props.collection.node }
Dependencies(manageIndexPolicy, props) ==
  { manageIndexPolicy.path,
    props.collection.node,
    props.collection.dataAccessPolicy }

\* new cdk.CustomResource(this, 'VectorIndex', ...) with its dependencies.
\* (variant: every custom resource gets a service token of its own)
VectorIndexResourceOwnToken(path, stack, props, crProvider, manageIndexPolicy) ==
  [ path         |-> path \o "/VectorIndex",
    serviceToken |-> crProvider.serviceToken \o "/" \o path,
    properties   |-> Properties(stack, props),
    resourceType |-> "Custom::OpenSearchIndex",
    dependencies |-> Dependencies(manageIndexPolicy, props) ]
VectorIndexResource(path, stack, props, crProvider, manageIndexPolicy) ==
  [ path         |-> path \o "/VectorIndex",
    serviceToken |-> crProvider.serviceToken,
    properties   |-> Properties(stack, props),
    resourceType |-> "Custom::OpenSearchIndex",
    dependencies |-> Dependencies(manageIndexPolicy, props) ]

\* The constructor has no throw statement and calls no validator.
\* (variant: the constructor validates its input)
ThrowsOnBadDimensions(props) == props.vectorDimensions <= 0 \/ props.mappings = <<>>
Throws(props) == FALSE

\* The constructor assigns to no field of props, props.mappings or
\* props.analyzer: the props object after the call.
\* (variant: the constructor writes a default back into props)
PropsAfterConstructFillingDefaults(props) ==
  [props EXCEPT !.numberOfShards = Some(OrNumber(@, DefaultNumberOfShards))]
PropsAfterConstruct(props) == props

\* ------------------------------------------------------------------ actions
\* new VectorIndex(scope, id, props), props being the object at heap[ref].
Construct(stack, ref) ==
  /\ phase = "synth"
  /\ Len(indexes) < MaxIndexes
  /\ ref \in DOMAIN heap
  /\ LET props       == heap[ref]
         id          == "Index" \o ToString(Len(indexes) + 1)
         path        == stack \o "/" \o id
         found       == GetProvider(providers, stack)
         pid         == ProviderId(found, stack)
         role        == AddManagedPolicy(found[pid].role, props.collection.aossPolicy)
         crProvider  == [found[pid] EXCEPT !.role = role]
         policy      == ManageIndexPolicy(path, props, crProvider)
         vectorIndex == VectorIndexResource(path, stack, props, crProvider, policy)
     IN  IF Throws(props)
         THEN /\ outcome' = "error"
              /\ UNCHANGED <<heap, providers, indexes>>
         ELSE /\ outcome' = "ok"
              /\ providers' = [found EXCEPT ![pid] = crProvider]
              /\ indexes' = Append(indexes,
                   [ id                |-> id,
                     stack             |-> stack,
                     props             |-> ref,
                     indexName         |-> props.indexName,
                     vectorField       |-> props.vectorField,
                     vectorDimensions  |-> props.vectorDimensions,
                     manageIndexPolicy |-> policy,
                     vectorIndex       |-> vectorIndex ])
              /\ heap' = [heap EXCEPT ![ref] = PropsAfterConstruct(props)]
  /\ UNCHANGED <<phase, status>>

\* --------------------------------------------------------------- deployment
\* The resources of the synthesized graph that the dependency edges relate.
Resources ==
  UNION { {indexes[i].manageIndexPolicy.path, indexes[i].vectorIndex.path}
            \cup indexes[i].vectorIndex.dependencies : i \in DOMAIN indexes }

\* The resources `res` has a dependency edge on.
DependsOn(res) ==
  UNION { indexes[i].vectorIndex.dependencies :
            i \in {j \in DOMAIN indexes : indexes[j].vectorIndex.path = res} }

\* cdk synth: the graph is final and handed to the deployment engine.
Synthesize ==
  /\ phase = "synth"
  /\ indexes # <<>>
  /\ phase' = "deploy"
  /\ status' = [res \in Resources |-> "pending"]
  /\ UNCHANGED <<heap, providers, indexes, outcome>>

\* The engine creates a resource once everything it depends on exists.
Create(res) ==
  /\ phase = "deploy"
  /\ status[res] = "pending"
  /\ \A d \in DependsOn(res) : status[d] = "created"
  /\ status' = [status EXCEPT ![res] = "created"]
  /\ UNCHANGED <<heap, providers, indexes, outcome, phase>>

\* Teardown (or rollback) starts.
Destroy ==
  /\ phase = "deploy"
  /\ phase' = "destroy"
  /\ UNCHANGED <<heap, providers, indexes, outcome, status>>

\* The engine deletes a resource once nothing that depends on it exists.
Delete(res) ==
  /\ phase = "destroy"
  /\ status[res] = "created"
  /\ \A r \in DOMAIN status : res \in DependsOn(r) => status[r] # "created"
  /\ status' = [status EXCEPT ![res] = "deleted"]
  /\ UNCHANGED <<heap, providers, indexes, outcome, phase>>

\* ------------------------------------------------------------ specifications
InitCommon ==
  /\ providers = <<>>
  /\ indexes = <<>>
  /\ outcome = "none"
  /\ phase = "synth"
  /\ status = <<>>

\* Synthesis: the caller holds one props object of the samples, or one per
\* collection.
Init ==
  /\ heap \in {<<p>> : p \in PropsSamples} \cup {CollectionProps}
  /\ InitCommon

Next == \E stack \in Stacks, ref \in 1..2 : Construct(stack, ref)

Spec == Init /\ [][Next]_vars

\* Synthesis followed by deployment and teardown of the emitted graph.
InitDeploy ==
  /\ heap = CollectionProps
  /\ InitCommon

NextDeploy ==
  \/ \E stack \in Stacks, ref \in 1..2 : Construct(stack, ref)
  \/ Synthesize
  \/ \E res \in DOMAIN status : Create(res)
  \/ Destroy
  \/ \E res \in DOMAIN status : Delete(res)

SpecDeploy == InitDeploy /\ [][NextDeploy]_vars

\* ------------------------------------------------------------------ claims
\* The props object index i was constructed from, its payload, its provider.
PropsOf(i) == heap[indexes[i].props]
PayloadOf(i) == indexes[i].vectorIndex.properties
DocumentOf(i) == indexes[i].manageIndexPolicy.document
IndexesIn(stack) == {i \in DOMAIN indexes : indexes[i].stack = stack}

\* The three constructs the custom resource of index i must wait for.
RequiredOf(i) ==
  { indexes[i].manageIndexPolicy.path,
    PropsOf(i).collection.node,
    PropsOf(i).collection.dataAccessPolicy }

\* C1: the custom resource of every VectorIndex has dependency edges on its
\* own ManageIndexPolicy, on props.collection and on
\* props.collection.dataAccessPolicy; in every deployment that respects the
\* edges it exists only while all three exist: it is created after them and
\* deleted before any of them.
C1_DependencyOrder ==
  \A i \in DOMAIN indexes :
    /\ RequiredOf(i) \subseteq indexes[i].vectorIndex.dependencies
    /\ phase # "synth" =>
         LET cr == indexes[i].vectorIndex.path
         IN  /\ status[cr] = "created" =>
                  \A d \in RequiredOf(i) : status[d] = "created"
             /\ (\E d \in RequiredOf(i) : status[d] = "deleted") =>
                  status[cr] # "created"

C1_Witness ==
  /\ phase = "destroy"
  /\ \E i \in DOMAIN indexes :
       /\ status[indexes[i].vectorIndex.path] = "deleted"
       /\ \A d \in RequiredOf(i) : status[d] = "deleted"

\* C2: an optional property that is left out gets its documented default
\* in the payload, whatever the other optional properties are.
C2_DefaultsWhenOmitted ==
  \A i \in DOMAIN indexes :
    LET props == PropsOf(i)
        pay   == PayloadOf(i)
    IN  /\ props.engine = None         => pay.Engine = "faiss"
        /\ props.spaceType = None      => pay.SpaceType = "l2"
        /\ props.methodName = None     => pay.MethodName = "hnsw"
        /\ props.numberOfShards = None => pay.NumberOfShards = 2
        /\ props.efSearch = None       => pay.EfSearch = 512
        /\ props.parameters = None     => pay.Parameters = "{}"
        /\ props.customSettings = None => pay.CustomSettings = "{}"

C2_Witness ==
  \E i \in DOMAIN indexes :
    /\ PropsOf(i).numberOfShards = None
    /\ PropsOf(i).engine = None
    /\ PropsOf(i).efSearch = Some(100)
    /\ PropsOf(i).spaceType = Some("cosinesimil")
    /\ PropsOf(i).parameters = None
    /\ PropsOf(i).customSettings # None
    /\ PayloadOf(i).NumberOfShards = 2
    /\ PayloadOf(i).Parameters = "{}"

\* C3: no provider exists in a stack before its first VectorIndex; afterwards
\* the stack has exactly one provider, every custom resource of the stack uses
\* its serviceToken and every ManageIndexPolicy of the stack names its role.
C3_SharedProvider ==
  \A stack \in Stacks :
    /\ IndexesIn(stack) = {} => ProvidersOf(providers, stack) = {}
    /\ IndexesIn(stack) # {} =>
         /\ Cardinality(ProvidersOf(providers, stack)) = 1
         /\ \A i \in IndexesIn(stack), k \in ProvidersOf(providers, stack) :
              /\ indexes[i].vectorIndex.serviceToken = providers[k].serviceToken
              /\ DocumentOf(i)[1].Principal = << providers[k].role.roleArn >>

C3_Witness ==
  \E i, j \in DOMAIN indexes :
    /\ i # j
    /\ indexes[i].stack = indexes[j].stack
    /\ indexes[i].vectorIndex.serviceToken = indexes[j].vectorIndex.serviceToken
    /\ Len(providers) = 1

\* C4: construction never ends in an error, whatever vectorDimensions and
\* mappings are, and indexName, vectorField and vectorDimensions reach the
\* construct's attributes and the payload unchanged.
C4_NoValidation ==
  /\ outcome # "error"
  /\ \A i \in DOMAIN indexes :
       LET props == PropsOf(i)
           pay   == PayloadOf(i)
       IN  /\ pay.VectorDimension = props.vectorDimensions
           /\ pay.IndexName = props.indexName
           /\ pay.VectorField = props.vectorField
           /\ indexes[i].vectorDimensions = props.vectorDimensions
           /\ indexes[i].indexName = props.indexName
           /\ indexes[i].vectorField = props.vectorField

C4_Witness ==
  /\ outcome = "ok"
  /\ \E i \in DOMAIN indexes :
       LET ms == PropsOf(i).mappings
       IN  /\ PropsOf(i).vectorDimensions < 0
           /\ PayloadOf(i).VectorDimension < 0
           /\ Len(ms) = 2
           /\ ms[1].mappingField = ms[2].mappingField

\* C5: constructing a VectorIndex changes no props object, so two indexes
\* constructed from the same props object carry the same values.
C5_PropsUnchanged ==
  /\ [][\A ref \in DOMAIN heap : heap'[ref] = heap[ref]]_vars
  /\ [](\A i, j \in DOMAIN indexes :
          indexes[i].props = indexes[j].props =>
            /\ indexes[i].indexName = indexes[j].indexName
            /\ indexes[i].vectorField = indexes[j].vectorField
            /\ indexes[i].vectorDimensions = indexes[j].vectorDimensions
            /\ [PayloadOf(i) EXCEPT !.Endpoint = ""]
                 = [PayloadOf(j) EXCEPT !.Endpoint = ""])

C5_Witness ==
  \E i, j \in DOMAIN indexes :
    /\ i # j
    /\ indexes[i].props = indexes[j].props
    /\ PropsOf(i).numberOfShards = None
    /\ PropsOf(i).analyzer = None

\* C6: every ManageIndexPolicy is a 'data' policy of one statement with two
\* rules, on the indexes of props.collection and on props.collection itself,
\* with the provider role as the only principal.
C6_PolicyScope ==
  \A i \in DOMAIN indexes :
    LET doc  == DocumentOf(i)
        name == PropsOf(i).collection.collectionName
        rule(n) == doc[1].Rules[n]
        perms(n) == {rule(n).Permission[k] : k \in 1..Len(rule(n).Permission)}
    IN  /\ indexes[i].manageIndexPolicy.type = "data"
        /\ Len(doc) = 1
        /\ Len(doc[1].Rules) = 2
        /\ rule(1).ResourceType = "index"
        /\ rule(1).Resource = << "index/" \o name \o "/*" >>
        /\ Len(rule(1).Permission) = 4
        /\ perms(1) = { "aoss:DescribeIndex", "aoss:CreateIndex",
                        "aoss:DeleteIndex", "aoss:UpdateIndex" }
        /\ rule(2).ResourceType = "collection"
        /\ rule(2).Resource = << "collection/" \o name >>
        /\ rule(2).Permission = << "aoss:DescribeCollectionItems" >>
        /\ \E k \in ProvidersOf(providers, indexes[i].stack) :
             doc[1].Principal = << providers[k].role.roleArn >>
        /\ (name = "c1" /\ doc[1].Principal = << "RoleArn-1" >>) =>
             indexes[i].manageIndexPolicy.policy =
               "[{\"Rules\":[{\"Resource\":[\"index/c1/*\"],\"Permission\":[\"aoss:DescribeIndex\",\"aoss:CreateIndex\",\"aoss:DeleteIndex\",\"aoss:UpdateIndex\"],\"ResourceType\":\"index\"},{\"Resource\":[\"collection/c1\"],\"Permission\":[\"aoss:DescribeCollectionItems\"],\"ResourceType\":\"collection\"}],\"Principal\":[\"RoleArn-1\"],\"Description\":\"\"}]"

C6_Witness ==
  \E i, j \in DOMAIN indexes :
    /\ indexes[i].stack = indexes[j].stack
    /\ PropsOf(i).collection.collectionName = "c1"
    /\ PropsOf(j).collection.collectionName = "c2"
    /\ DocumentOf(j)[1].Rules[2].Resource = << "collection/c2" >>
    /\ DocumentOf(i)[1].Principal = DocumentOf(j)[1].Principal

\* C7: every supplied value of engine, spaceType, methodName, numberOfShards
\* and efSearch, 0 and the empty string included, is the payload's value.
C7_SuppliedValuesUnchanged ==
  \A i \in DOMAIN indexes :
    LET props == PropsOf(i)
        pay   == PayloadOf(i)
    IN  /\ props.engine # None         => pay.Engine = props.engine[1]
        /\ props.spaceType # None      => pay.SpaceType = props.spaceType[1]
        /\ props.methodName # None     => pay.MethodName = props.methodName[1]
        /\ props.numberOfShards # None => pay.NumberOfShards = props.numberOfShards[1]
        /\ props.efSearch # None       => pay.EfSearch = props.efSearch[1]

\* C8: MetadataManagement has one entry per element of props.mappings, in
\* the same order, with the element's mappingField, dataType and filterable.
C8_MappingsPreserved ==
  \A i \in DOMAIN indexes :
    LET ms == PropsOf(i).mappings
        mm == PayloadOf(i).MetadataManagement
    IN  /\ Len(mm) = Len(ms)
        /\ \A k \in 1..Len(ms) :
             /\ mm[k].MappingField = ms[k].mappingField
             /\ mm[k].DataType = ms[k].dataType
             /\ mm[k].Filterable = ms[k].filterable

C8_Witness ==
  \E i \in DOMAIN indexes :
    LET ms == PropsOf(i).mappings
        mm == PayloadOf(i).MetadataManagement
    IN  /\ Len(ms) = 2
        /\ ms[1].mappingField = ms[2].mappingField
        /\ ms[1].dataType # ms[2].dataType
        /\ ~ms[1].filterable
        /\ ms[2].filterable
        /\ Len(mm) = 2
        /\ ~mm[1].Filterable

\* C9: the payload has no Analyzer exactly when props has none; otherwise
\* its CharacterFilters, Tokenizer and TokenFilters are those of
\* props.analyzer, in order, empty lists included.
C9_AnalyzerMapped ==
  \A i \in DOMAIN indexes :
    LET a  == PropsOf(i).analyzer
        pa == PayloadOf(i).Analyzer
    IN  /\ (pa = None) <=> (a = None)
        /\ a # None =>
             /\ pa[1].CharacterFilters = a[1].characterFilters
             /\ pa[1].Tokenizer = a[1].tokenizer
             /\ pa[1].TokenFilters = a[1].tokenFilters

C9_Witness ==
  \E i \in DOMAIN indexes :
    /\ PropsOf(i).analyzer # None
    /\ PropsOf(i).analyzer[1].characterFilters = <<>>
    /\ PropsOf(i).analyzer[1].tokenFilters = <<"ja_stop", "kuromoji_stemmer">>
    /\ PayloadOf(i).Analyzer[1].TokenFilters = <<"ja_stop", "kuromoji_stemmer">>
    /\ PayloadOf(i).Analyzer # None
    /\ PayloadOf(i).Analyzer[1].CharacterFilters = <<>>

\* C10: the managed policies of a provider role only grow, and the role of a
\* stack's provider holds the aossPolicy of every collection indexed in the
\* stack.
C10_RolePoliciesGrow ==
  /\ [][\A k \in DOMAIN providers :
          providers[k].role.managedPolicies
            \subseteq providers'[k].role.managedPolicies]_vars
  /\ [](\A i \in DOMAIN indexes :
          \A k \in ProvidersOf(providers, indexes[i].stack) :
            \A j \in IndexesIn(indexes[i].stack) :
              PropsOf(j).collection.aossPolicy
                \in providers[k].role.managedPolicies)

C10_Witness ==
  \E i, j \in DOMAIN indexes :
    /\ indexes[i].stack = indexes[j].stack
    /\ PropsOf(i).collection.collectionName # PropsOf(j).collection.collectionName
    /\ \E k \in ProvidersOf(providers, indexes[i].stack) :
         providers[k].role.managedPolicies = {"AOSSPolicy-c1", "AOSSPolicy-c2"}

====
